---- MODULE Spec2Model ----
(***************************************************************************)
(* voice-tui: the recording-to-transcription pipeline.                     *)
(*                                                                         *)
(*   AudioRecorder   src/src/audio/recorder.ts  (lines 345-556)            *)
(*   transcribe      src/src/whisper/model.ts   (lines 581-770)            *)
(*   downloadModel   src/src/whisper/model.ts   (lines 25-120)             *)
(*   App             src/src/App.tsx                                       *)
(*                                                                         *)
(* One action is one run-to-completion task of the JavaScript event loop:  *)
(* a macrotask (key event, timer callback, I/O completion) together with   *)
(* the microtasks it queues.  `await` on a promise that is settled inside  *)
(* the same task (recorder.start(), recorder.stop()) therefore does not    *)
(* end the action; `await` on real I/O (file.exists, fetch, reader.read,   *)
(* Bun.write, nodewhisper, setTimeout) does.                               *)
(***************************************************************************)
EXTENDS Integers, Sequences, FiniteSets, TLC

\* ------------------------------------------------------------------ bounds
\* wall-clock seconds that pass in one Advance step
TimeStep == 30
\* the clock stops advancing here
MaxNow == 90
\* chunks kept per recording
MaxChunks == 2
\* chunks of a model download body
MaxBody == 2
\* start() calls in one run
MaxStarts == 2

\* ------------------------------------------------------- program constants
\* new AudioRecorder({ duration: 60 })
RecorderDuration == 60
\* if (elapsed >= 60) handleStopRecording()
AutoStopSeconds_Early == RecorderDuration - TimeStep
AutoStopSeconds == 60
\* const steps = 10 in mockTranscribe
MockSteps == 10

\* chunks the capture source can deliver (real capture: any bytes)
RealChunks == {"pcmA", "pcmB"}
\* the synthetic generator produces the same 440 Hz sine chunk every time
MockChunk == "sine440"
\* texts the inference capability can return
Texts == {"hello", "the quick brown fox"}
\* keys the keyboard handler distinguishes
Keys == {"space", "return", "m", "escape", "ctrl+c", "ctrl+s"}

NoValue == [none |-> TRUE]

VARIABLES
  \* ---- environment
  now,                  \* Date.now(), in seconds
  record,               \* node-record-lpcm16 loaded (record !== null)
  nodewhisper,          \* nodejs-whisper loaded (nodewhisper !== null)
  modelFile,            \* the file at getModelPath(selectedModel): "absent" | "present"
  \* ---- AudioRecorder fields
  isRecording,
  audioChunks,
  startTime,
  mockIntervals,        \* live setInterval timers of startMockRecording
  streamOpen,           \* recordingProcess is delivering 'data' events
  \* ---- App (React state, last value set)
  appState,
  viewState,
  elapsedTime,
  transcription,
  error,
  transcriptionProgress,
  \* ---- App (values captured by the closures of the last render)
  rAppState,
  rViewState,
  \* ---- the transcribe() call in flight
  tcall,                \* pc: where the call waits; audioBuffer: its argument;
                        \* totalBytes: content-length (0: no header), bodyChunks:
                        \* chunks the response holds, downloadedBytes: chunks read
                        \* so far; i: loop counter of mockTranscribe
  \* ---- history (not program state)
  progressLog,          \* onProgress calls of the current transcribe() call
  wavWritten,           \* saveWav ran in the current transcribe() call
  inferenceRuns,        \* the inference capability ran in the current call
  stopResults,          \* stop() calls that returned since the last start()
  starts,               \* start() calls so far
  lastStep,             \* what the last action did
  \* ---- the model store (file system) and the calls made on it
  files,                \* path -> content (a sequence of bytes), or NoValue
  dcall,                \* caller -> its downloadModel() / transcribe() call
  \* ---- the capture source's schedule
  chunkInterval,        \* seconds between two chunks (0: no fixed schedule)
  \* ---- one call of a pure function
  calc,                 \* fn: the function, arg: its argument, done: whether it
                        \* has run, out: what it returned or that it threw
  \* ---- history of the capture sources (not program state)
  producers,            \* the start() calls whose mock interval is still alive
  origins               \* for each chunk of audioChunks, the start() call whose
                        \* capture source produced it

vars == << now, record, nodewhisper, modelFile,
           isRecording, audioChunks, startTime, mockIntervals, streamOpen,
           appState, viewState, elapsedTime, transcription, error,
           transcriptionProgress, rAppState, rViewState,
           tcall,
           progressLog, wavWritten, inferenceRuns, stopResults, starts, lastStep,
           files, dcall, chunkInterval, calc, producers, origins >>

envVars == << now, record, nodewhisper >>
recVars == << isRecording, audioChunks, startTime, mockIntervals, streamOpen, stopResults,
             starts >>
uiVars == << appState, viewState, elapsedTime, transcription, error, transcriptionProgress >>
renderVars == << rAppState, rViewState >>
txVars == << tcall, progressLog, wavWritten, inferenceRuns, modelFile >>
storeVars == << files, dcall >>
sourceVars == << producers, origins >>
auxVars == << files, dcall, chunkInterval, calc, sourceVars >>
appVars == << envVars, recVars, uiVars, renderVars, txVars, lastStep >>

AppStates == {"idle", "recording", "transcribing", "result", "error"}

\* ============================================================ AudioRecorder

\* get elapsedTime(): 0 unless recording
RecorderElapsedTime_NoGuard == now - startTime
RecorderElapsedTime == IF ~isRecording THEN 0 ELSE now - startTime

\* isRealRecordingAvailable()
IsRealRecordingAvailable == record

\* start(): if (this.isRecording) throw new Error('Already recording')
StartRejects_NoGuard == FALSE
StartRejects == isRecording

\* stop(): if (!this.isRecording) throw new Error('Not recording')
StopRejects_NoGuard == FALSE
StopRejects == ~isRecording

\* start(), the catch block: this.isRecording = false, then rethrow
StartCatch_KeepsFlag == isRecording' = TRUE
StartCatch == isRecording' = FALSE

\* start() returns normally: startRealRecording() did not throw (opens), or
\* the mock is used, which cannot throw
StartReturns(opens) == ~IsRealRecordingAvailable \/ opens

\* start() past its guard.  opens: whether record.record(...).stream() worked.
RecorderStart(opens) ==
  /\ starts' = starts + 1
  /\ audioChunks' = << >>
  /\ startTime' = now
  /\ stopResults' = 0
  /\ IF IsRealRecordingAvailable
       THEN IF opens
              THEN /\ isRecording' = TRUE
                   /\ streamOpen' = TRUE
                   /\ UNCHANGED mockIntervals
              ELSE /\ StartCatch
                   /\ UNCHANGED << streamOpen, mockIntervals >>
       ELSE /\ isRecording' = TRUE
            /\ mockIntervals' = mockIntervals + 1
            /\ UNCHANGED streamOpen

\* stop() past its guard: the recorder's own fields
RecorderStop ==
  /\ isRecording' = FALSE
  /\ streamOpen' = IF IsRealRecordingAvailable THEN FALSE ELSE streamOpen
  /\ stopResults' = stopResults + 1
  /\ UNCHANGED << audioChunks, startTime, mockIntervals, starts >>

\* the RecordingResult stop() returns
StopResult == [audioBuffer |-> audioChunks, duration |-> now - startTime]

\* ============================================================== transcribe

\* no transcribe() call in flight; the locals of a finished call are dead
NoCall == [pc |-> "none", audioBuffer |-> << >>, totalBytes |-> 0, bodyChunks |-> 0,
           downloadedBytes |-> 0, i |-> 0]

Progress(status, percent) == [status |-> status, percent |-> percent]

\* onProgress as handleStopRecording passes it: each call is recorded and
\* ends in setTranscriptionProgress(progress.percent)
OnProgress(calls) ==
  IF calls = << >>
    THEN UNCHANGED << progressLog, transcriptionProgress >>
    ELSE /\ progressLog' = progressLog \o calls
         /\ transcriptionProgress' = calls[Len(calls)].percent

\* downloadModel: percent = (downloadedBytes / totalBytes) * 100
DownloadPercent(downloadedBytes, totalBytes) == (downloadedBytes * 100) \div totalBytes

\* mockTranscribe: percent = (i / steps) * 100
MockPercent(i) == (i * 100) \div MockSteps

\* transcribe(): the callback right before `return result`
CompleteCalls_Missing == << >>
CompleteCalls == << Progress("complete", 100) >>

\* a step of transcribe() that ends at an await
TStep(next, calls) ==
  /\ tcall' = next
  /\ OnProgress(calls)
  /\ UNCHANGED << appState, error, transcription >>

\* handleStopRecording, the catch block
CatchStop_Swallow(err) ==
  /\ UNCHANGED << error, appState >>
CatchStop(err) ==
  /\ error' = [message |-> "Transcription failed: " \o err, recoverable |-> TRUE]
  /\ appState' = "error"

\* handleToggleRecording, the catch block
CatchStart(err) ==
  /\ error' = [message |-> "Failed to start recording: " \o err, recoverable |-> TRUE]
  /\ appState' = "error"

\* transcribe() rejects: nothing inside it catches, so the error reaches the
\* catch block of handleStopRecording
TranscribeRejects(err) ==
  /\ tcall' = NoCall
  /\ CatchStop(err)
  /\ UNCHANGED << progressLog, transcriptionProgress, transcription, inferenceRuns >>

\* transcribe() returns: the 'complete' callback, then handleStopRecording
\* stores the result and enters 'result'
TranscribeReturns(calls, text) ==
  /\ tcall' = NoCall
  /\ UNCHANGED inferenceRuns
  /\ OnProgress(calls \o CompleteCalls)
  /\ transcription' = [text |-> text, audioBuffer |-> tcall.audioBuffer]
  /\ appState' = "result"
  /\ UNCHANGED error

\* onProgress({status: 'processing', percent: 0}), then realTranscribe or
\* mockTranscribe up to its first await
BeginProcessing ==
  /\ TStep([tcall EXCEPT !.pc = IF nodewhisper THEN "saveWav" ELSE "mock", !.i = 0],
           << Progress("processing", 0) >>)
  /\ inferenceRuns' = IF nodewhisper THEN inferenceRuns ELSE inferenceRuns + 1

\* `await downloadModel(...)` rejects inside transcribe(): there is no try
\* around it, so transcribe() rejects with the same error
DownloadRejects_Swallowed(err) == BeginProcessing
DownloadRejects(err) == TranscribeRejects(err)

\* downloadModel, the catch block: the error is wrapped
DownloadError(err) == "Error: Failed to download model small: " \o err

\* `await isModelDownloaded(modelName)` settles
T_CheckModel ==
  /\ tcall.pc = "check"
  /\ IF modelFile = "present"
       THEN BeginProcessing
       ELSE /\ TStep([tcall EXCEPT !.pc = "dlMkdir"], << Progress("loading", 0) >>)
            /\ UNCHANGED inferenceRuns
  /\ lastStep' = "other"
  /\ UNCHANGED << envVars, recVars, renderVars, modelFile, wavWritten,
                  viewState, elapsedTime >>
  /\ UNCHANGED auxVars

\* downloadModel: `await Bun.write(modelDir/.gitkeep, '')` settles (it is
\* outside the try block: its error is not wrapped)
T_DownloadMkdir ==
  /\ tcall.pc = "dlMkdir"
  /\ \/ /\ TStep([tcall EXCEPT !.pc = "dlFetch"], << >>)
        /\ lastStep' = "other"
        /\ UNCHANGED inferenceRuns
     \/ /\ DownloadRejects("Error: EACCES")
        /\ lastStep' = "download:failed"
  /\ UNCHANGED << envVars, recVars, renderVars, modelFile, wavWritten,
                  viewState, elapsedTime >>
  /\ UNCHANGED auxVars

\* downloadModel: `await fetch(url)` settles; response.ok, content-length
\* and response.body are read
T_DownloadFetch ==
  /\ tcall.pc = "dlFetch"
  /\ \/ /\ \E body \in 1..MaxBody : \E total \in {0, body} :
             TStep([tcall EXCEPT !.pc = "dlRead", !.bodyChunks = body,
                                 !.totalBytes = total, !.downloadedBytes = 0], << >>)
        /\ lastStep' = "other"
        /\ UNCHANGED inferenceRuns
     \/ /\ \E err \in {"fetch failed", "Error: Failed to download: 404",
                       "Error: No response body available"} :
             DownloadRejects(DownloadError(err))
        /\ lastStep' = "download:failed"
  /\ UNCHANGED << envVars, recVars, renderVars, modelFile, wavWritten,
                  viewState, elapsedTime >>
  /\ UNCHANGED auxVars

\* downloadModel: one `await reader.read()` settles
T_DownloadRead ==
  /\ tcall.pc = "dlRead"
  /\ \/ /\ tcall.downloadedBytes < tcall.bodyChunks
        /\ LET got == tcall.downloadedBytes + 1 IN
             TStep([tcall EXCEPT !.downloadedBytes = got],
                   IF tcall.totalBytes > 0
                     THEN << Progress("loading", DownloadPercent(got, tcall.totalBytes)) >>
                     ELSE << >>)
        /\ lastStep' = "other"
        /\ UNCHANGED inferenceRuns
     \/ /\ tcall.downloadedBytes = tcall.bodyChunks
        /\ TStep([tcall EXCEPT !.pc = "dlWrite"], << >>)
        /\ lastStep' = "other"
        /\ UNCHANGED inferenceRuns
     \/ /\ DownloadRejects(DownloadError("read error"))
        /\ lastStep' = "download:failed"
  /\ UNCHANGED << envVars, recVars, renderVars, modelFile, wavWritten,
                  viewState, elapsedTime >>
  /\ UNCHANGED auxVars

\* downloadModel: `await Bun.write(modelPath, combined)` settles; on success
\* downloadModel returns and transcribe() goes on to the processing phase
T_DownloadWrite ==
  /\ tcall.pc = "dlWrite"
  /\ \/ /\ modelFile' = "present"
        /\ BeginProcessing
        /\ lastStep' = "other"
     \/ /\ DownloadRejects(DownloadError("ENOSPC"))
        /\ lastStep' = "download:failed"
        /\ UNCHANGED modelFile
  /\ UNCHANGED << envVars, recVars, renderVars, wavWritten, viewState, elapsedTime >>
  /\ UNCHANGED auxVars

\* realTranscribe: `await saveWav(...)` settles; nodewhisper is called next
T_SaveWav ==
  /\ tcall.pc = "saveWav"
  /\ \/ /\ wavWritten' = TRUE
        /\ inferenceRuns' = inferenceRuns + 1
        /\ TStep([tcall EXCEPT !.pc = "nodewhisper"], << Progress("processing", 25) >>)
        /\ lastStep' = "other"
     \/ /\ TranscribeRejects("Error: Transcription failed: EIO")
        /\ lastStep' = "transcribe:failed"
        /\ UNCHANGED wavWritten
  /\ UNCHANGED << envVars, recVars, renderVars, modelFile, viewState, elapsedTime >>
  /\ UNCHANGED auxVars

\* realTranscribe: `await nodewhisper(...)` settles
T_Nodewhisper ==
  /\ tcall.pc = "nodewhisper"
  /\ \/ /\ \E text \in Texts : TranscribeReturns(<< Progress("processing", 75) >>, text)
        /\ lastStep' = "transcribe:returned"
     \/ /\ TranscribeRejects("Error: Transcription failed: whisper exited")
        /\ lastStep' = "transcribe:failed"
  /\ UNCHANGED << envVars, recVars, renderVars, modelFile, wavWritten,
                  viewState, elapsedTime >>
  /\ UNCHANGED auxVars

\* mockTranscribe: one `await new Promise(resolve => setTimeout(resolve,
\* stepTime))` settles; after the last one the mock text is returned
T_MockStep ==
  /\ tcall.pc = "mock"
  /\ tcall.i < MockSteps
  /\ IF tcall.i + 1 < MockSteps
       THEN /\ TStep([tcall EXCEPT !.i = tcall.i + 1],
                     << Progress("processing", MockPercent(tcall.i)) >>)
            /\ lastStep' = "other"
            /\ UNCHANGED inferenceRuns
       ELSE /\ \E text \in Texts :
                 TranscribeReturns(<< Progress("processing", MockPercent(tcall.i)) >>, text)
            /\ lastStep' = "transcribe:returned"
  /\ UNCHANGED << envVars, recVars, renderVars, modelFile, wavWritten,
                  viewState, elapsedTime >>
  /\ UNCHANGED auxVars

\* ===================================================================== App

\* handleStopRecording(): recorder.stop(), then transcribe() up to its first
\* await; shown is the value setElapsedTime last received in this task
HandleStopRecording(shown) ==
  IF StopRejects
    THEN /\ CatchStop("Error: Not recording")
         /\ elapsedTime' = shown
         /\ lastStep' = "stop:rejected"
         /\ UNCHANGED << recVars, txVars, transcription, transcriptionProgress >>
    ELSE /\ RecorderStop
         /\ appState' = "transcribing"
         /\ elapsedTime' = 0
         /\ tcall' = [NoCall EXCEPT !.pc = "check", !.audioBuffer = StopResult.audioBuffer]
         /\ progressLog' = << >>
         /\ wavWritten' = FALSE
         /\ inferenceRuns' = 0
         /\ lastStep' = "stop:returned"
         /\ UNCHANGED << modelFile, error, transcription, transcriptionProgress >>

\* handleToggleRecording(), with the appState its closure captured
HandleToggleRecording ==
  CASE rAppState = "idle" ->
         /\ IF StartRejects
              THEN /\ CatchStart("Error: Already recording")
                   /\ lastStep' = "start:rejected"
                   /\ UNCHANGED recVars
              ELSE \E opens \in BOOLEAN :
                     /\ starts < MaxStarts
                     /\ RecorderStart(opens)
                     /\ IF StartReturns(opens)
                          THEN /\ appState' = "recording"
                               /\ error' = NoValue
                               /\ lastStep' = "start:returned"
                          ELSE /\ CatchStart("Error: Failed to start recording: ENODEV")
                               /\ lastStep' = "start:openFailed"
         /\ UNCHANGED << txVars, elapsedTime, transcription, transcriptionProgress >>
    [] rAppState = "recording" ->
         HandleStopRecording(elapsedTime)
    [] OTHER ->
         /\ lastStep' = "toggle:ignored"
         /\ UNCHANGED << recVars, txVars, appState, elapsedTime, transcription, error,
                         transcriptionProgress >>

\* handleNewRecording()
HandleNewRecording_KeepsTranscription ==
  /\ appState' = "idle"
  /\ error' = NoValue
  /\ lastStep' = "newRecording"
  /\ progressLog' = << >>
  /\ wavWritten' = FALSE
  /\ inferenceRuns' = 0
  /\ UNCHANGED << recVars, tcall, modelFile, elapsedTime, transcriptionProgress,
                  transcription >>
HandleNewRecording ==
  /\ transcription' = NoValue
  /\ appState' = "idle"
  /\ error' = NoValue
  /\ lastStep' = "newRecording"
  /\ progressLog' = << >>
  /\ wavWritten' = FALSE
  /\ inferenceRuns' = 0
  /\ UNCHANGED << recVars, tcall, modelFile, elapsedTime, transcriptionProgress >>

\* useKeyboard: the handler a key reaches, given the rendered view and state
KeyTarget(view, app, key) ==
  CASE view = "model-select" /\ key = "escape" -> "closeModelSelect"
    [] view = "main" /\ key \in {"space", "return"} /\ app \in {"idle", "recording"}
         -> "handleToggleRecording"
    [] view = "main" /\ key \in {"space", "return"} /\ app = "result"
         -> "handleNewRecording"
    [] view = "main" /\ key = "m" /\ app = "idle" -> "openModelSelect"
    [] view = "main" /\ key = "ctrl+c" /\ app = "result" /\ transcription # NoValue
         -> "handleCopy"
    [] view = "main" /\ key = "ctrl+s" /\ app = "result" /\ transcription # NoValue
         -> "handleSave"
    [] OTHER -> "none"

\* a key event reaches the useKeyboard handler
KeyPress ==
  /\ \E key \in Keys :
       LET target == KeyTarget(rViewState, rAppState, key) IN
       CASE target = "handleToggleRecording" ->
              HandleToggleRecording /\ UNCHANGED viewState
         [] target = "handleNewRecording" ->
              HandleNewRecording /\ UNCHANGED viewState
         [] target = "closeModelSelect" ->
              /\ viewState' = "main"
              /\ lastStep' = "other"
              /\ UNCHANGED << recVars, txVars, appState, elapsedTime, transcription, error,
                              transcriptionProgress >>
         [] target = "openModelSelect" ->
              /\ viewState' = "model-select"
              /\ lastStep' = "other"
              /\ UNCHANGED << recVars, txVars, appState, elapsedTime, transcription, error,
                              transcriptionProgress >>
         [] OTHER ->
              \* no handler, or handleCopy / handleSave, which change
              \* nothing of the pipeline
              /\ lastStep' = "other"
              /\ UNCHANGED << recVars, txVars, uiVars >>
  /\ UNCHANGED << envVars, renderVars >>
  /\ UNCHANGED auxVars

\* RecordButton.handlePress: if (!disabled) onToggle(), disabled being
\* appState === 'transcribing' at the last render; the button is part of
\* the main view only
ButtonPress ==
  /\ rViewState = "main"
  /\ rAppState # "transcribing"
  /\ HandleToggleRecording
  /\ UNCHANGED << envVars, renderVars, viewState >>
  /\ UNCHANGED auxVars

\* React commits the pending state: closures and effects see it from now on
Render ==
  /\ << rAppState, rViewState >> # << appState, viewState >>
  /\ rAppState' = appState
  /\ rViewState' = viewState
  /\ lastStep' = "other"
  /\ UNCHANGED << envVars, recVars, txVars, uiVars >>
  /\ UNCHANGED auxVars

\* the 100 ms interval of the recording effect, alive while the rendered
\* appState is 'recording'
TimerTick ==
  /\ rAppState = "recording"
  /\ LET elapsed == RecorderElapsedTime IN
       IF elapsed >= AutoStopSeconds
         THEN HandleStopRecording(elapsed)
         ELSE /\ elapsedTime' = elapsed
              /\ lastStep' = "other"
              /\ UNCHANGED << recVars, txVars, appState, transcription, error,
                              transcriptionProgress >>
  /\ UNCHANGED << envVars, renderVars, viewState >>
  /\ UNCHANGED auxVars

\* ==================================================== capture (chunk handlers)

\* the chunk handlers call this.stop() when the cap is reached and drop
\* the promise it returns: if (this.elapsedTime >= this.options.duration)
AutoStop_Late == RecorderElapsedTime > RecorderDuration
AutoStop == RecorderElapsedTime >= RecorderDuration

\* room for one more chunk: the buffer is bounded until the cap is reached
ChunkRoom == Len(audioChunks) < MaxChunks \/ RecorderElapsedTime >= RecorderDuration

\* startMockRecording: one firing of a setInterval(…, 100) callback
MockIntervalCallback ==
  /\ IF ~isRecording
       THEN /\ mockIntervals' = mockIntervals - 1
            /\ lastStep' = "other"
            /\ UNCHANGED << isRecording, audioChunks, startTime, streamOpen, stopResults,
                            starts >>
       ELSE /\ ChunkRoom
            /\ audioChunks' = Append(audioChunks, MockChunk)
            /\ IF AutoStop
                 THEN /\ isRecording' = FALSE
                      /\ stopResults' = stopResults + 1
                      /\ mockIntervals' = mockIntervals - 1
                      /\ lastStep' = "chunk:autoStop"
                 ELSE /\ lastStep' = "other"
                      /\ UNCHANGED << isRecording, stopResults, mockIntervals >>
            /\ UNCHANGED << startTime, streamOpen, starts >>

\* one of the live intervals fires
MockIntervalTick ==
  /\ mockIntervals > 0
  /\ MockIntervalCallback
  /\ UNCHANGED << envVars, renderVars, txVars, uiVars >>
  /\ UNCHANGED auxVars

\* startRealRecording: the stream's 'data' handler
StreamOnData ==
  /\ ChunkRoom
  /\ \E chunk \in RealChunks : audioChunks' = Append(audioChunks, chunk)
  /\ IF AutoStop
       THEN /\ isRecording' = FALSE
            /\ streamOpen' = FALSE
            /\ stopResults' = stopResults + 1
            /\ lastStep' = "chunk:autoStop"
       ELSE /\ lastStep' = "other"
            /\ UNCHANGED << isRecording, streamOpen, stopResults >>
  /\ UNCHANGED << startTime, mockIntervals, starts >>

\* the open stream emits 'data'
StreamData ==
  /\ streamOpen
  /\ StreamOnData
  /\ UNCHANGED << envVars, renderVars, txVars, uiVars >>
  /\ UNCHANGED auxVars

\* startRealRecording: the stream's 'error' handler
StreamOnError ==
  /\ isRecording' = FALSE
  /\ streamOpen' \in BOOLEAN
  /\ lastStep' = "stream:error"
  /\ UNCHANGED << audioChunks, startTime, mockIntervals, stopResults, starts >>

\* the open stream emits 'error'
StreamError ==
  /\ streamOpen
  /\ StreamOnError
  /\ UNCHANGED << envVars, renderVars, txVars, uiVars >>
  /\ UNCHANGED auxVars

\* wall-clock time passes
Advance ==
  /\ now + TimeStep <= MaxNow
  /\ now' = now + TimeStep
  /\ lastStep' = "other"
  /\ UNCHANGED << record, nodewhisper, recVars, renderVars, txVars, uiVars >>
  /\ UNCHANGED auxVars

\* ============================================================= model store
\* downloadModel, isModelDownloaded and the model check of transcribe(), as
\* exported functions any number of callers may have in flight, and the
\* standalone download script.  A file is NoValue (absent) or [bytes |-> ...].

\* bytes of a model asset
AssetLen == 2
\* callers that may have a call in flight at the same time
Callers == {"A", "B"}
\* WHISPER_MODELS: a name that is a key, and one that is not
Registry == {"small"}
ModelNames == Registry \cup {"large-v2"}

\* getModelPath(model)
GetModelPath(model) == "~/.voice-tui/models/ggml-" \o model \o ".bin"
\* getNodejsWhisperModelPath(model)
GetNodejsWhisperModelPath(model) ==
  "node_modules/nodejs-whisper/whisperModels/ggml-" \o model \o ".bin"
\* downloadModel: `${modelDir}/.gitkeep`
GitKeepPath == "~/.voice-tui/models/.gitkeep"

Paths == {GitKeepPath} \cup {GetModelPath(m) : m \in ModelNames}
           \cup {GetNodejsWhisperModelPath(m) : m \in ModelNames}

\* the bytes getModelUrl(model) serves
Asset(model) == [i \in 1..AssetLen |-> << model, i >>]

\* isModelDownloaded(model): Bun.file(getModelPath(model)).exists()
IsModelDownloaded(model) == files[GetModelPath(model)] # NoValue

\* a caller without a call.  pc: the await the call waits at; op, name: the
\* function called and its model name; totalBytes: content-length (0: none);
\* body: bytes the response has not delivered yet; chunks: the chunks array;
\* progress: onProgress calls of downloadModel; tlog: onProgress calls of
\* transcribe; requested: fetch(url) was called; wasPresent, prefetched:
\* isModelDownloaded(name) and ScriptSucceeded(name) when the call began
NoDownload == [pc |-> "idle", op |-> "none", name |-> "", totalBytes |-> 0,
               body |-> << >>, chunks |-> << >>, downloadedBytes |-> 0,
               progress |-> << >>, tlog |-> << >>, requested |-> FALSE,
               wasPresent |-> FALSE, prefetched |-> FALSE]

\* downloadModel: chunks are combined in arrival order into one array
RECURSIVE Combined(_)
Combined_LastOnly(chunks) == IF chunks = << >> THEN << >> ELSE chunks[Len(chunks)]
Combined(chunks) ==
  IF chunks = << >> THEN << >> ELSE Combined(SubSeq(chunks, 1, Len(chunks) - 1)) \o chunks[Len(chunks)]

\* downloadModel: if (onProgress && totalBytes > 0)
ReportsProgress_Never(totalBytes) == FALSE
ReportsProgress(totalBytes) == totalBytes > 0

\* downloadModel, a throw inside the try block: the chunks read so far are
\* held in memory only, the file at modelPath is what it was
FailedDownloadFile(old, chunks) == old

\* downloadModel throws (the catch block wraps and rethrows); transcribe(),
\* which has no try around the call, throws with it
D_Fails(c) ==
  /\ dcall' = [dcall EXCEPT ![c].pc = "failed"]
  /\ files' = [files EXCEPT ![GetModelPath(dcall[c].name)] =
                              FailedDownloadFile(@, dcall[c].chunks)]

\* the standalone script has downloaded this model
ScriptSucceeded(model) == files[GetNodejsWhisperModelPath(model)] # NoValue

\* downloadModel(name) is called: it runs up to `await Bun.write(.gitkeep)`
D_DownloadModel(c) ==
  /\ dcall[c].pc = "idle"
  /\ \E m \in ModelNames :
       dcall' = [dcall EXCEPT ![c] = [NoDownload EXCEPT !.pc = "dlMkdir",
                                                        !.op = "downloadModel", !.name = m,
                                                        !.wasPresent = IsModelDownloaded(m)]]
  /\ UNCHANGED << files, appVars, chunkInterval, calc, sourceVars >>

\* transcribe(buffer, {model: name}) is called: it runs up to
\* `await isModelDownloaded(modelName)`
D_Transcribe(c) ==
  /\ dcall[c].pc = "idle"
  /\ \E m \in ModelNames :
       dcall' = [dcall EXCEPT ![c] = [NoDownload EXCEPT !.pc = "check",
                                                        !.op = "transcribe", !.name = m,
                                                        !.wasPresent = IsModelDownloaded(m),
                                                        !.prefetched = ScriptSucceeded(m)]]
  /\ UNCHANGED << files, appVars, chunkInterval, calc, sourceVars >>

\* transcribe: `await isModelDownloaded(modelName)` settles
D_Check(c) ==
  /\ dcall[c].pc = "check"
  /\ IF IsModelDownloaded(dcall[c].name)
       THEN dcall' = [dcall EXCEPT ![c].pc = "processing",
                                   ![c].tlog = Append(@, Progress("processing", 0))]
       ELSE dcall' = [dcall EXCEPT ![c].pc = "dlMkdir",
                                   ![c].tlog = Append(@, Progress("loading", 0))]
  /\ UNCHANGED << files, appVars, chunkInterval, calc, sourceVars >>

\* downloadModel: `await Bun.write(modelDir/.gitkeep, '')` settles; fetch(url)
\* is called next
D_Mkdir(c) ==
  /\ dcall[c].pc = "dlMkdir"
  /\ \/ /\ files' = [files EXCEPT ![GitKeepPath] = [bytes |-> << >>]]
        /\ dcall' = [dcall EXCEPT ![c].pc = "dlFetch", ![c].requested = TRUE]
     \/ /\ dcall' = [dcall EXCEPT ![c].pc = "failed"]
        /\ UNCHANGED files
  /\ UNCHANGED << appVars, chunkInterval, calc, sourceVars >>

\* downloadModel: `await fetch(url)` settles: a response with a body and
\* with or without content-length, or !response.ok, no body, a network error
D_Fetch(c) ==
  /\ dcall[c].pc = "dlFetch"
  /\ \/ /\ \E total \in {0, AssetLen} :
             dcall' = [dcall EXCEPT ![c].pc = "dlRead", ![c].totalBytes = total,
                                    ![c].body = Asset(dcall[c].name)]
        /\ UNCHANGED files
     \/ D_Fails(c)
  /\ UNCHANGED << appVars, chunkInterval, calc, sourceVars >>

\* downloadModel: one `await reader.read()` settles: a chunk of any size,
\* done (Bun.write(modelPath, combined) is called next), or a read error
D_Read(c) ==
  /\ dcall[c].pc = "dlRead"
  /\ \/ /\ dcall[c].body # << >>
        /\ \E k \in 1..Len(dcall[c].body) :
             LET d == dcall[c]
                 got == d.downloadedBytes + k
                 calls == IF ReportsProgress(d.totalBytes)
                            THEN << [percent |-> DownloadPercent(got, d.totalBytes),
                                     downloadedBytes |-> got,
                                     totalBytes |-> d.totalBytes] >>
                            ELSE << >>
                 loading == IF d.op = "transcribe"
                              THEN [j \in DOMAIN calls |-> Progress("loading", calls[j].percent)]
                              ELSE << >>
             IN dcall' = [dcall EXCEPT ![c].chunks = Append(@, SubSeq(d.body, 1, k)),
                                       ![c].body = SubSeq(@, k + 1, Len(@)),
                                       ![c].downloadedBytes = got,
                                       ![c].progress = @ \o calls,
                                       ![c].tlog = @ \o loading]
        /\ UNCHANGED files
     \/ /\ dcall[c].body = << >>
        /\ dcall' = [dcall EXCEPT ![c].pc = "dlWrite"]
        /\ UNCHANGED files
     \/ D_Fails(c)
  /\ UNCHANGED << appVars, chunkInterval, calc, sourceVars >>

\* downloadModel: `await Bun.write(modelPath, combined)` settles; downloadModel
\* returns, and transcribe() reports processing 0
D_Write(c) ==
  /\ dcall[c].pc = "dlWrite"
  /\ \/ /\ files' = [files EXCEPT ![GetModelPath(dcall[c].name)] =
                                    [bytes |-> Combined(dcall[c].chunks)]]
        /\ IF dcall[c].op = "transcribe"
             THEN dcall' = [dcall EXCEPT ![c].pc = "processing",
                                         ![c].tlog = Append(@, Progress("processing", 0))]
             ELSE dcall' = [dcall EXCEPT ![c].pc = "returned"]
     \/ D_Fails(c)
  /\ UNCHANGED << appVars, chunkInterval, calc, sourceVars >>

\* deleteModel: what `await Bun.write(modelPath, '')` leaves at the path: a
\* file without content (the file is not removed)
DeletedFile == [bytes |-> << >>]

\* deleteModel(name) is called: it runs up to `await Bun.write(modelPath, '')`
D_DeleteModel(c) ==
  /\ dcall[c].pc = "idle"
  /\ \E m \in ModelNames :
       dcall' = [dcall EXCEPT ![c] = [NoDownload EXCEPT !.pc = "delWrite",
                                                        !.op = "deleteModel", !.name = m,
                                                        !.wasPresent = IsModelDownloaded(m)]]
  /\ UNCHANGED << files, appVars, chunkInterval, calc, sourceVars >>

\* deleteModel: `await Bun.write(modelPath, '')` settles; deleteModel returns,
\* or throws 'Failed to delete model'
D_DeleteWrite(c) ==
  /\ dcall[c].pc = "delWrite"
  /\ \/ /\ files' = [files EXCEPT ![GetModelPath(dcall[c].name)] = DeletedFile]
        /\ dcall' = [dcall EXCEPT ![c].pc = "returned"]
     \/ /\ dcall' = [dcall EXCEPT ![c].pc = "failed"]
        /\ UNCHANGED files
  /\ UNCHANGED << appVars, chunkInterval, calc, sourceVars >>

\* scripts/download-model.ts for a valid model name: nodewhisper downloads
\* the model into its own directory
ScriptDownload ==
  /\ \E m \in ModelNames :
       /\ m \in Registry
       /\ ~ScriptSucceeded(m)
       /\ files' = [files EXCEPT ![GetNodejsWhisperModelPath(m)] = [bytes |-> Asset(m)]]
  /\ UNCHANGED << dcall, appVars, chunkInterval, calc, sourceVars >>

\* ================================================ capture on a fixed schedule
\* The recorder alone, with a capture source that delivers chunk number k
\* exactly k * chunkInterval seconds after start().

\* seconds between chunks the schedule may use
ChunkIntervals == {20, 25, 30, 45, 60, 70}
\* seconds that pass in one CaptureAdvance step, unless a chunk is due sooner
CaptureStep == 5
\* the clock of the schedule stops here
CaptureMaxNow == 140

\* when the next chunk of the recording in progress arrives
NextChunkAt == startTime + (Len(audioChunks) + 1) * chunkInterval

\* start() by a caller that never calls stop()
CaptureStart ==
  /\ ~StartRejects
  /\ starts < MaxStarts
  /\ RecorderStart(TRUE)
  /\ lastStep' = "start:returned"
  /\ UNCHANGED << envVars, renderVars, txVars, uiVars, auxVars >>

\* wall-clock time passes, up to the arrival of the next chunk
CaptureAdvance ==
  /\ now < CaptureMaxNow
  /\ LET step == IF isRecording /\ NextChunkAt - now < CaptureStep
                   THEN NextChunkAt - now
                   ELSE CaptureStep
     IN /\ step > 0
        /\ now' = now + step
  /\ lastStep' = "other"
  /\ UNCHANGED << record, nodewhisper, recVars, renderVars, txVars, uiVars, auxVars >>

\* the synthetic generator's interval fires on schedule
CaptureMockChunk ==
  /\ isRecording
  /\ now = NextChunkAt
  /\ MockIntervalTick

\* the stream's 'data' event fires on schedule
CaptureStreamChunk ==
  /\ isRecording
  /\ now = NextChunkAt
  /\ StreamData

\* ================================================== WAV container (recorder.ts)

\* one 16-bit limb: numbers up to a few times 2^32 are kept as two limbs,
\* value = hi * 2^16 + lo with lo < 2^16; hi >= 2^16 means 2^32 or more
Limb == 2 ^ 16
Num(hi, lo) == [hi |-> hi, lo |-> lo]
\* n + k and n * k for a small k
Plus(n, k) == LET s == n.lo + k IN Num(n.hi + s \div Limb, s % Limb)
Times(n, k) == LET p == n.lo * k IN Num(n.hi * k + p \div Limb, p % Limb)
FitsUInt32(n) == n.hi < Limb

\* what a call gives back
Returned(value) == [value |-> value]
Threw(name) == [threw |-> name]
HasReturned(out) == "value" \in DOMAIN out
HasThrown(out) == "threw" \in DOMAIN out

\* buffer.write('RIFF' | 'WAVE' | 'fmt ' | 'data', offset): the ASCII codes
Magic(marker) ==
  CASE marker = "RIFF" -> << 82, 73, 70, 70 >>
    [] marker = "WAVE" -> << 87, 65, 86, 69 >>
    [] marker = "fmt " -> << 102, 109, 116, 32 >>
    [] marker = "data" -> << 100, 97, 116, 97 >>

\* buffer.writeUInt32LE(value): the four bytes stored, low byte first; a
\* value of 2^32 or more is stored modulo 2^32 by a runtime that does not
\* check the range
UInt32LE_BigEndian(n) == << (n.hi \div 256) % 256, n.hi % 256, n.lo \div 256, n.lo % 256 >>
UInt32LE(n) == << n.lo % 256, n.lo \div 256, n.hi % 256, (n.hi \div 256) % 256 >>
\* buffer.writeUInt16LE(value)
UInt16LE(v) == << v % 256, (v \div 256) % 256 >>
\* buffer.readUInt32LE(offset), offset counted from 0
ReadUInt32LE(buffer, offset) ==
  Num(buffer[offset + 3] + 256 * buffer[offset + 4],
      buffer[offset + 1] + 256 * buffer[offset + 2])
ReadUInt16LE(buffer, offset) == buffer[offset + 1] + 256 * buffer[offset + 2]

\* createWavHeader: blockAlign = (numChannels * bitsPerSample) / 8, exact for
\* the channel counts and sample widths of WavHeaders
BlockAlign(header) == (header.numChannels * header.bitsPerSample) \div 8
\* createWavHeader: byteRate = sampleRate * blockAlign
ByteRate(header) == Times(header.sampleRate, BlockAlign(header))

CreateWavHeader_SizeIsDataLength(header) ==
  Magic("RIFF") \o UInt32LE(header.dataLength) \o Magic("WAVE")
    \o Magic("fmt ") \o UInt32LE(Num(0, 16)) \o UInt16LE(1)
    \o UInt16LE(header.numChannels) \o UInt32LE(header.sampleRate)
    \o UInt32LE(ByteRate(header)) \o UInt16LE(BlockAlign(header))
    \o UInt16LE(header.bitsPerSample)
    \o Magic("data") \o UInt32LE(header.dataLength)
\* createWavHeader: the 44 bytes it fills when no write throws
CreateWavHeader(header) ==
  Magic("RIFF") \o UInt32LE(Plus(header.dataLength, 36)) \o Magic("WAVE")
    \o Magic("fmt ") \o UInt32LE(Num(0, 16)) \o UInt16LE(1)
    \o UInt16LE(header.numChannels) \o UInt32LE(header.sampleRate)
    \o UInt32LE(ByteRate(header)) \o UInt16LE(BlockAlign(header))
    \o UInt16LE(header.bitsPerSample)
    \o Magic("data") \o UInt32LE(header.dataLength)

\* every value createWavHeader hands to writeUInt32LE is below 2^32
WritesInRange(header) ==
  /\ FitsUInt32(Plus(header.dataLength, 36))
  /\ FitsUInt32(header.sampleRate)
  /\ FitsUInt32(ByteRate(header))
  /\ FitsUInt32(header.dataLength)

\* createWavHeader(header): what the call gives.  writeUInt32LE of a value
\* of 2^32 or more throws a RangeError in a runtime that checks the range
\* and stores the value modulo 2^32 in one that does not.
CreateWavHeaderOutcomes(header) ==
  IF WritesInRange(header)
    THEN {Returned(CreateWavHeader(header))}
    ELSE {Returned(CreateWavHeader(header)), Threw("RangeError")}

\* saveWav(buffer, sampleRate, filename): the bytes written to the file
SaveWavHeader(buffer, sampleRate) ==
  [sampleRate |-> sampleRate, numChannels |-> 1, bitsPerSample |-> 16,
   dataLength |-> Num(0, Len(buffer))]
SaveWavOutcomes(buffer, sampleRate) ==
  { IF HasThrown(h) THEN h ELSE Returned(h.value \o buffer) :
      h \in CreateWavHeaderOutcomes(SaveWavHeader(buffer, sampleRate)) }

\* loadWav(filename) on a file holding `buffer`: readUInt32LE(24) and
\* readUInt32LE(40) throw when the buffer ends before the field does;
\* nothing else is checked
LoadWav(buffer) ==
  IF Len(buffer) < 28 \/ Len(buffer) < 44
    THEN Threw("RangeError")
    ELSE LET sampleRate == ReadUInt32LE(buffer, 24)
             dataLength == ReadUInt32LE(buffer, 40)
             end == IF dataLength.hi > 0 \/ 44 + dataLength.lo > Len(buffer)
                      THEN Len(buffer) ELSE 44 + dataLength.lo
         IN Returned([audioBuffer |-> SubSeq(buffer, 45, end),
                      duration |-> [bytes |-> dataLength,
                                    bytesPerSecond |-> Times(sampleRate, 2)],
                      sampleRate |-> sampleRate])

\* ---- the arguments the WAV functions are called with
SampleRates ==
  { Num(0, 1), Num(0, 8000), Num(0, 16000), Num(0, 44100), Num(1, 0),
    Num(16384, 0), Num(32768, 0), Num(65535, 65535) }
DataLengths ==
  { Num(0, 0), Num(0, 1), Num(0, 3200), Num(0, 65535), Num(1, 0),
    Num(29, 19456), Num(65535, 65499), Num(65535, 65500), Num(65535, 65535) }
WavHeaders ==
  [sampleRate : SampleRates, numChannels : {1, 2}, bitsPerSample : {8, 16},
   dataLength : DataLengths]
\* PCM buffers of up to MaxPcm bytes
MaxPcm == 2
PcmBytes == {0, 128, 255}
PcmBuffers == UNION { [1..n -> PcmBytes] : n \in 0..MaxPcm }

\* files for loadWav: well-formed ones, their prefixes, and copies with one
\* marker overwritten
WellFormedFiles ==
  { CreateWavHeader(SaveWavHeader(b, r)) \o b :
      b \in PcmBuffers, r \in {Num(0, 16000), Num(0, 44100)} }
MarkerOffsets == [RIFF |-> 0, WAVE |-> 8, fmt |-> 12, data |-> 36]
MarkerAt(buffer, marker, offset) ==
  Len(buffer) >= offset + 4 /\ SubSeq(buffer, offset + 1, offset + 4) = Magic(marker)
HasMarkers(buffer) ==
  /\ MarkerAt(buffer, "RIFF", MarkerOffsets.RIFF)
  /\ MarkerAt(buffer, "WAVE", MarkerOffsets.WAVE)
  /\ MarkerAt(buffer, "fmt ", MarkerOffsets.fmt)
  /\ MarkerAt(buffer, "data", MarkerOffsets.data)
PrefixLengths == {0, 4, 27, 28, 40, 43}
WavFiles ==
  WellFormedFiles
    \cup { SubSeq(f, 1, n) : f \in WellFormedFiles, n \in PrefixLengths }
    \cup { [f EXCEPT ![o + 1] = 0] : f \in WellFormedFiles, o \in {0, 8, 12, 36} }
    \cup { [i \in 1..44 |-> 0] }

\* ---- the calls
CalcReturns(fn, out) ==
  /\ calc.fn = fn
  /\ ~calc.done
  /\ calc' = [calc EXCEPT !.done = TRUE, !.out = out]
  /\ UNCHANGED << appVars, files, dcall, chunkInterval, sourceVars >>

CallCreateWavHeader ==
  /\ calc.fn = "createWavHeader"
  /\ \E out \in CreateWavHeaderOutcomes(calc.arg) : CalcReturns("createWavHeader", out)

CallSaveWav ==
  /\ calc.fn = "saveWav"
  /\ \E out \in SaveWavOutcomes(calc.arg.buffer, calc.arg.sampleRate) :
       CalcReturns("saveWav", out)

CallLoadWav ==
  /\ calc.fn = "loadWav"
  /\ CalcReturns("loadWav", LoadWav(calc.arg))

NewCall(fn, arg) == [fn |-> fn, arg |-> arg, done |-> FALSE, out |-> NoValue]

WavCalls ==
  { NewCall("createWavHeader", h) : h \in WavHeaders }
    \cup { NewCall("saveWav", [buffer |-> b, sampleRate |-> r]) :
             b \in PcmBuffers, r \in SampleRates }
    \cup { NewCall("loadWav", f) : f \in WavFiles }

\* ====================================== amplitude (recorder.ts, waveform.ts)

\* buffer.readInt16LE(offset), offset counted from 0
ReadInt16LE(buffer, offset) ==
  LET u == buffer[offset + 1] + 256 * buffer[offset + 2]
  IN IF u >= 32768 THEN u - 65536 ELSE u

\* Math.abs
Abs_Identity(x) == x
Abs(x) == IF x < 0 THEN 0 - x ELSE x

\* a non-integer result, as the fraction num / den
Ratio(num, den) == [num |-> num, den |-> den]
\* Math.min(1, num / den)
Min1(r) == IF r.num > r.den THEN Ratio(r.den, r.den) ELSE r

\* calculateAmplitude: for (let i = 0; i < buffer.length; i += 200)
AmplitudeStride == 200
\* one pass of the loop body for k = i / 200: the sample at i is added when
\* i + 1 < buffer.length
StrideTerm(buffer, k) ==
  IF k * AmplitudeStride + 1 < Len(buffer)
    THEN Abs(ReadInt16LE(buffer, k * AmplitudeStride)) ELSE 0
StrideCount(buffer, k) == IF k * AmplitudeStride + 1 < Len(buffer) THEN 1 ELSE 0
\* getAmplitude: Math.abs(audioBuffer.readInt16LE(offset + i * 2) / 32768.0),
\* times 32768
ReadTerm(buffer, offset, i) == Abs(ReadInt16LE(buffer, offset + 2 * i))

\* what pass i of a loop adds: to `sum` and to `samples` in
\* calculateAmplitude, to `sum` in getAmplitude
LoopTerm(loop, buffer, offset, i) ==
  CASE loop = "sum" -> StrideTerm(buffer, i)
    [] loop = "samples" -> StrideCount(buffer, i)
    [] loop = "read" -> ReadTerm(buffer, offset, i)

\* the total of the passes lo..hi of a loop, halving the range
RECURSIVE SumOver(_, _, _, _, _)
SumOver(loop, buffer, offset, lo, hi) ==
  IF lo > hi THEN 0
  ELSE IF lo = hi THEN LoopTerm(loop, buffer, offset, lo)
  ELSE LET mid == (lo + hi) \div 2
       IN SumOver(loop, buffer, offset, lo, mid) + SumOver(loop, buffer, offset, mid + 1, hi)

\* AudioRecorder.calculateAmplitude(buffer)
CalculateAmplitude(buffer) ==
  IF Len(buffer) < 2 THEN Returned(Ratio(0, 1))
  ELSE LET last == (Len(buffer) - 1) \div AmplitudeStride
           sum == SumOver("sum", buffer, 0, 0, last)
           samples == SumOver("samples", buffer, 0, 0, last)
       IN IF samples = 0 THEN Returned(Ratio(0, 1))
          ELSE Returned(Min1(Ratio(sum, samples * 32768)))

\* getAmplitude: Math.min(1024, (audioBuffer.length - offset) / 2), doubled
\* so that it stays an integer
MaxSamplesRead == 1024
TwiceSamplesToRead(buffer, offset) ==
  IF 2 * MaxSamplesRead < Len(buffer) - offset
    THEN 2 * MaxSamplesRead ELSE Len(buffer) - offset

\* getAmplitude(audioBuffer, offset): the loop runs for every i with
\* i < samplesToRead and reads two bytes at offset + 2 * i; readInt16LE
\* throws when they are not both inside the buffer
GetAmplitude(buffer, offset) ==
  LET twice == TwiceSamplesToRead(buffer, offset)
      last == (twice - 1) \div 2
  IN IF twice <= 0 THEN Returned(Ratio(0, 1))
     ELSE IF offset + 2 * last + 2 > Len(buffer) THEN Threw("RangeError")
     ELSE Returned(Min1(Ratio(2 * SumOver("read", buffer, offset, 0, last), 32768 * twice)))

\* ---- the buffers the amplitude functions are called with
AmplitudeLengths == {0, 1, 2, 3, 4, 5, 200, 201, 202, 401, 402, 2048, 2049, 2050}
\* byte i (from 0) of a buffer that repeats one 16-bit sample
SampleByte(pattern, i) ==
  CASE pattern = "zero" -> 0
    [] pattern = "min" -> IF i % 2 = 0 THEN 0 ELSE 128
    [] pattern = "max" -> IF i % 2 = 0 THEN 255 ELSE 127
    [] pattern = "minusOne" -> 255
    [] pattern = "small" -> IF i % 2 = 0 THEN 7 ELSE 0
Patterns == {"zero", "min", "max", "minusOne", "small"}
AmplitudeBuffers ==
  { [i \in 1..n |-> SampleByte(p, i - 1)] : n \in AmplitudeLengths, p \in Patterns }
Offsets == {0, 1, 2, 3, 4000}
AllZero(buffer) == \A i \in DOMAIN buffer : buffer[i] = 0

CallCalculateAmplitude ==
  /\ calc.fn = "calculateAmplitude"
  /\ CalcReturns("calculateAmplitude", CalculateAmplitude(calc.arg))

CallGetAmplitude ==
  /\ calc.fn = "getAmplitude"
  /\ CalcReturns("getAmplitude", GetAmplitude(calc.arg.audioBuffer, calc.arg.offset))

AmplitudeCalls ==
  { NewCall("calculateAmplitude", b) : b \in AmplitudeBuffers }
    \cup { NewCall("getAmplitude", [audioBuffer |-> b, offset |-> o]) :
             b \in AmplitudeBuffers, o \in Offsets }

\* ============================================== calculateConfidence (whisper)

\* a text is a sequence of characters (UTF-16 code units), text.length its
\* length
WordChars == {"a", "b", "A", "B", "0", "_"}
SpaceChars == {" "}
PlainPunctuation == {".", ",", "!", "?", "-"}
\* text.toLowerCase(), one character
LowerChar(c) == CASE c = "A" -> "a" [] c = "B" -> "b" [] OTHER -> c
ToLowerCase(text) == [i \in DOMAIN text |-> LowerChar(text[i])]

\* text.split(/\s+/): the pieces between the runs of white space; `word` is
\* the piece being read, `inRun` whether the last character was white space
RECURSIVE SplitFrom(_, _, _, _)
SplitFrom(text, i, word, inRun) ==
  IF i > Len(text) THEN << word >>
  ELSE IF text[i] \in SpaceChars
    THEN IF inRun THEN SplitFrom(text, i + 1, word, TRUE)
                  ELSE << word >> \o SplitFrom(text, i + 1, << >>, TRUE)
    ELSE SplitFrom(text, i + 1, Append(word, text[i]), FALSE)
Split(text) == SplitFrom(text, 1, << >>, FALSE)

\* (text.match(/[^\w\s\.\,\!\?\-]/g) || []).length
GibberishCount(text) ==
  Cardinality({ i \in DOMAIN text :
                  text[i] \notin WordChars \cup SpaceChars \cup PlainPunctuation })

\* Math.max(0.5, Math.min(0.98, confidence)), confidence = num / den
Clamp_NoFloor(r) ==
  IF 100 * r.num > 98 * r.den THEN Ratio(98, 100) ELSE r
Clamp(r) ==
  IF 100 * r.num > 98 * r.den THEN Ratio(98, 100)
  ELSE IF 100 * r.num < 50 * r.den THEN Ratio(50, 100)
  ELSE r

\* calculateConfidence(text):
\* 0.85 * (0.5 + 0.5 * unique / words) * (1 - gibberish / length)
\*   = 85 * (words + unique) * (length - gibberish) / (200 * words * length)
CalculateConfidence(text) ==
  IF Len(text) = 0 THEN Ratio(0, 1)
  ELSE IF Len(text) < 10 THEN Ratio(6, 10)
  ELSE LET words == Split(ToLowerCase(text))
           uniqueWords == { words[i] : i \in DOMAIN words }
           unique == Cardinality(uniqueWords)
       IN Clamp(Ratio(85 * (Len(words) + unique) * (Len(text) - GibberishCount(text)),
                      200 * Len(words) * Len(text)))

\* ---- the texts calculateConfidence is called with: up to MaxWords words
\* separated by one space, and a few with white space at an end or doubled
MaxWords == 3
Words ==
  { << "a", "b", "a" >>, << "A", "b", "a" >>, << "#", "@", "#" >>,
    << "a", "b", "a", "b" >>, << "a", "-", "b", "a", "." >> }
RECURSIVE Sentences(_)
Sentences(n) ==
  IF n = 1 THEN Words
  ELSE Sentences(n - 1) \cup { s \o << " " >> \o w : s \in Sentences(n - 1), w \in Words }
ConfidenceTexts ==
  Sentences(MaxWords)
    \cup { << >>, << " " >> }
    \cup { << " " >> \o s : s \in Sentences(2) }
    \cup { s \o << " ", " " >> \o s : s \in Words }

CallCalculateConfidence ==
  /\ calc.fn = "calculateConfidence"
  /\ CalcReturns("calculateConfidence", Returned(CalculateConfidence(calc.arg)))

ConfidenceCalls == { NewCall("calculateConfidence", t) : t \in ConfidenceTexts }

\* ============================================ isTranscriptionAvailable (whisper)

\* Object.keys(WHISPER_MODELS), in the order of the object literal
WhisperModelKeys ==
  << "tiny", "tiny.en", "base", "base.en", "small", "small.en", "medium",
     "medium.en", "large-v1", "large", "large-v3-turbo" >>

\* the model files a home directory may hold: those of the registry and one
\* of a model that is not registered
ModelFilePaths ==
  { GetModelPath(WhisperModelKeys[i]) : i \in DOMAIN WhisperModelKeys }
    \cup { GetModelPath("large-v2") }

\* isModelDownloaded(model) on a file system fs (path -> content or NoValue)
IsModelDownloadedIn(fs, model) == fs[GetModelPath(model)] # NoValue

\* isTranscriptionAvailable(): for (const model of models)
\*   if (await isModelDownloaded(model)) return true
\* and false after the loop
RECURSIVE AnyDownloadedFrom(_, _, _)
AnyDownloadedFrom(fs, models, i) ==
  IF i > Len(models) THEN FALSE
  ELSE IF IsModelDownloadedIn(fs, models[i]) THEN TRUE
  ELSE AnyDownloadedFrom(fs, models, i + 1)

IsTranscriptionAvailable_FirstThree(fs) ==
  AnyDownloadedFrom(fs, << "tiny", "base", "small" >>, 1)
IsTranscriptionAvailable(fs) == AnyDownloadedFrom(fs, WhisperModelKeys, 1)

CallIsTranscriptionAvailable ==
  /\ calc.fn = "isTranscriptionAvailable"
  /\ CalcReturns("isTranscriptionAvailable", Returned(IsTranscriptionAvailable(calc.arg)))

\* every combination of present and absent model files
AvailabilityCalls ==
  { NewCall("isTranscriptionAvailable",
            [p \in ModelFilePaths |-> IF p \in present THEN [bytes |-> << >>] ELSE NoValue]) :
      present \in SUBSET ModelFilePaths }

\* ============================================================ specification

\* the controller and the recorder right after construction
IdleApp ==
  /\ isRecording = FALSE
  /\ audioChunks = << >>
  /\ startTime = 0
  /\ mockIntervals = 0
  /\ streamOpen = FALSE
  /\ appState = "idle"
  /\ viewState = "main"
  /\ elapsedTime = 0
  /\ transcription = NoValue
  /\ error = NoValue
  /\ transcriptionProgress = 0
  /\ rAppState = "idle"
  /\ rViewState = "main"
  /\ tcall = NoCall
  /\ progressLog = << >>
  /\ wavWritten = FALSE
  /\ inferenceRuns = 0
  /\ stopResults = 0
  /\ starts = 0
  /\ lastStep = "init"

\* the controller has one transcribe() call at a time (tcall) and one model
\* file (modelFile): the files and callers of the store are left out
NoStore ==
  /\ files = << >>
  /\ dcall = << >>

\* no pure function is being called
NoCalc == [fn |-> "none"]

\* the capture sources are not followed
NoSources == producers = {} /\ origins = << >>

Init ==
  /\ now = 0
  /\ record \in BOOLEAN
  /\ nodewhisper \in BOOLEAN
  /\ modelFile \in {"absent", "present"}
  /\ IdleApp
  /\ NoStore
  /\ chunkInterval = 0
  /\ calc = NoCalc
  /\ NoSources

Next ==
  \/ KeyPress
  \/ ButtonPress
  \/ Render
  \/ TimerTick
  \/ MockIntervalTick
  \/ StreamData
  \/ StreamError
  \/ Advance
  \/ T_CheckModel
  \/ T_DownloadMkdir
  \/ T_DownloadFetch
  \/ T_DownloadRead
  \/ T_DownloadWrite
  \/ T_SaveWav
  \/ T_Nodewhisper
  \/ T_MockStep

Spec == Init /\ [][Next]_vars

\* ---- the model store under concurrent callers
StoreInit ==
  /\ now = 0
  /\ record = FALSE
  /\ nodewhisper = FALSE
  /\ modelFile = "absent"
  /\ IdleApp
  /\ \E present \in SUBSET Registry :
       files = [p \in Paths |->
                  IF \E m \in present : p = GetModelPath(m)
                    THEN [bytes |-> Asset(CHOOSE m \in present : p = GetModelPath(m))]
                    ELSE NoValue]
  /\ dcall = [c \in Callers |-> NoDownload]
  /\ chunkInterval = 0
  /\ calc = NoCalc
  /\ NoSources

StoreNext ==
  \/ \E c \in Callers : D_DownloadModel(c)
  \/ \E c \in Callers : D_Transcribe(c)
  \/ \E c \in Callers : D_Check(c)
  \/ \E c \in Callers : D_Mkdir(c)
  \/ \E c \in Callers : D_Fetch(c)
  \/ \E c \in Callers : D_Read(c)
  \/ \E c \in Callers : D_Write(c)
  \/ \E c \in Callers : D_DeleteModel(c)
  \/ \E c \in Callers : D_DeleteWrite(c)
  \/ ScriptDownload

StoreSpec == StoreInit /\ [][StoreNext]_vars

\* ---- the recorder under a capture source with a fixed chunk interval
CaptureInit ==
  /\ now = 0
  /\ record \in BOOLEAN
  /\ nodewhisper = FALSE
  /\ modelFile = "absent"
  /\ IdleApp
  /\ NoStore
  /\ chunkInterval \in ChunkIntervals
  /\ calc = NoCalc
  /\ NoSources

CaptureNext ==
  \/ CaptureStart
  \/ CaptureAdvance
  \/ CaptureMockChunk
  \/ CaptureStreamChunk

CaptureSpec == CaptureInit /\ [][CaptureNext]_vars

\* ---- the recorder under a client that calls start() and stop() at any
\* moment, with the capture sources followed one by one
RecorderInit ==
  /\ now = 0
  /\ record \in BOOLEAN
  /\ nodewhisper = FALSE
  /\ modelFile = "absent"
  /\ IdleApp
  /\ NoStore
  /\ chunkInterval = 0
  /\ calc = NoCalc
  /\ NoSources

\* start() is called while the recorder is not recording
ClientStart ==
  /\ ~StartRejects
  /\ starts < MaxStarts
  /\ \E opens \in BOOLEAN :
       /\ RecorderStart(opens)
       /\ lastStep' = IF StartReturns(opens) THEN "start:returned" ELSE "start:openFailed"
  /\ producers' = IF mockIntervals' > mockIntervals THEN producers \cup {starts'}
                                                     ELSE producers
  /\ origins' = << >>
  /\ UNCHANGED << envVars, renderVars, txVars, uiVars, files, dcall, chunkInterval, calc >>

\* stop() is called while the recorder is recording
ClientStop ==
  /\ ~StopRejects
  /\ RecorderStop
  /\ lastStep' = "stop:returned"
  /\ UNCHANGED << envVars, renderVars, txVars, uiVars, auxVars >>

\* the interval that start() number p created fires
SourceMockTick(p) ==
  /\ p \in producers
  /\ MockIntervalCallback
  /\ producers' = IF mockIntervals' < mockIntervals THEN producers \ {p} ELSE producers
  /\ origins' = IF audioChunks' # audioChunks THEN Append(origins, p) ELSE origins
  /\ UNCHANGED << envVars, renderVars, txVars, uiVars, files, dcall, chunkInterval, calc >>

\* the stream the last start() opened emits 'data'
SourceStreamData ==
  /\ streamOpen
  /\ StreamOnData
  /\ origins' = Append(origins, starts)
  /\ UNCHANGED << producers, envVars, renderVars, txVars, uiVars, files, dcall,
                  chunkInterval, calc >>

RecorderNext ==
  \/ ClientStart
  \/ ClientStop
  \/ \E p \in 1..MaxStarts : SourceMockTick(p)
  \/ SourceStreamData
  \/ StreamError
  \/ Advance

RecorderSpec == RecorderInit /\ [][RecorderNext]_vars

\* the controller under the assumption that every awaited step of the
\* transcribe() call in flight settles: it returns or it fails
TranscribeStep ==
  \/ T_CheckModel \/ T_DownloadMkdir \/ T_DownloadFetch \/ T_DownloadRead
  \/ T_DownloadWrite \/ T_SaveWav \/ T_Nodewhisper \/ T_MockStep

LiveSpec == Spec /\ WF_vars(TranscribeStep)

\* ---- the pure functions, each called once on an argument
FnInit ==
  /\ now = 0
  /\ record = FALSE
  /\ nodewhisper = FALSE
  /\ modelFile = "absent"
  /\ IdleApp
  /\ NoStore
  /\ chunkInterval = 0
  /\ calc \in WavCalls \cup AmplitudeCalls \cup ConfidenceCalls \cup AvailabilityCalls
  /\ NoSources

FnNext ==
  \/ CallCreateWavHeader
  \/ CallSaveWav
  \/ CallLoadWav
  \/ CallCalculateAmplitude
  \/ CallGetAmplitude
  \/ CallCalculateConfidence
  \/ CallIsTranscriptionAvailable

FnSpec == FnInit /\ [][FnNext]_vars

\* ================================================================== claims

StartCalls == {"start:returned", "start:rejected", "start:openFailed"}
StopCalls == {"stop:returned", "stop:rejected"}
TranscribeFailures == {"transcribe:failed", "download:failed"}

Statuses(log) == {log[i].status : i \in DOMAIN log}
Rank(status) == CASE status = "loading" -> 0 [] status = "processing" -> 1 [] OTHER -> 2

\* C1: whenever stop() ends a recording that has reached the maximum duration
\* while the controller is in Recording, the controller enters Transcribing
\* and transcribe() is called with the audio of that recording, whichever of
\* the chunk handler and the 100 ms timer runs first.
C1_AutoStopHandsOver ==
  [][ ( /\ isRecording
        /\ ~isRecording'
        /\ stopResults' = stopResults + 1
        /\ now - startTime >= RecorderDuration
        /\ appState = "recording" )
      => ( /\ appState' = "transcribing"
           /\ tcall'.pc = "check"
           /\ tcall'.audioBuffer = audioChunks' ) ]_vars

\* C2: a redundant trigger is a no-op: the controller never shows Error
\* while the recording or the transcription it was redundant to is still in
\* progress.
C2_RedundantTriggerIsNoOp ==
  appState = "error" => (~isRecording /\ tcall.pc = "none")

\* C3: in every Error state some key reaches handleNewRecording (the trigger
\* that takes the controller back to Idle).
C3_ErrorOffersNewRecording ==
  (appState = "error" /\ rAppState = "error")
    => \E key \in Keys : KeyTarget(rViewState, rAppState, key) = "handleNewRecording"

\* C4: right after recorder.stop() or transcribe() has thrown inside
\* handleStopRecording, the controller is in Error (not Transcribing) with
\* recoverable = true and a non-empty message, and no call is left in flight
\* by the failed transcribe().
C4_FailureBecomesError ==
  lastStep \in {"stop:rejected"} \cup TranscribeFailures
    => /\ appState = "error"
       /\ error # NoValue
       /\ error.recoverable = TRUE
       /\ error.message # ""
       /\ (lastStep \in TranscribeFailures => tcall.pc = "none")

C4_Witness ==
  /\ lastStep = "download:failed"
  /\ appState = "error"
  /\ rAppState = "transcribing"
  /\ error.recoverable

\* C5: right after start() failed to open the capture source, the recorder
\* is not recording, its elapsedTime is 0, and the controller is in Error
\* with recoverable = true.
C5_OpenFailureLeavesIdleRecorder ==
  lastStep = "start:openFailed"
    => /\ ~isRecording
       /\ RecorderElapsedTime = 0
       /\ appState = "error"
       /\ error # NoValue
       /\ error.recoverable = TRUE

C5_Witness ==
  /\ lastStep = "start:openFailed"
  /\ appState = "error"
  /\ now > 0

\* C6: a start() call on a recorder that is recording is rejected and
\* leaves isRecording, startTime and the chunk sequence as they were.
C6_SecondStartRejected ==
  [][ (isRecording /\ lastStep' \in StartCalls)
      => ( /\ lastStep' = "start:rejected"
           /\ isRecording'
           /\ startTime' = startTime
           /\ audioChunks' = audioChunks ) ]_vars

C6_Witness ==
  /\ lastStep = "start:rejected"
  /\ isRecording
  /\ Len(audioChunks) > 0
  /\ now > startTime

\* C7: a stop() call on a recorder that is not recording is rejected and
\* leaves the recorder's fields as they were, and no start() is followed by
\* more than one stop() that returns a RecordingResult.
C7_StopOncePerStart ==
  /\ [](stopResults <= 1)
  /\ [][ (~isRecording /\ lastStep' \in StopCalls)
         => ( /\ lastStep' = "stop:rejected"
              /\ UNCHANGED << isRecording, audioChunks, startTime, stopResults >> ) ]_vars

C7_Witness ==
  /\ lastStep = "stop:rejected"
  /\ stopResults = 1
  /\ ~isRecording

\* C8: the percent values one transcribe() call passes to onProgress never
\* decrease.
C8_PercentNonDecreasing ==
  \A i, j \in DOMAIN progressLog :
    i < j => progressLog[i].percent <= progressLog[j].percent

\* C9: the statuses of one transcribe() call come in the order loading*,
\* processing+, complete; complete (percent 100) is delivered at most once,
\* last, and only by a call that returns; when the call returns, complete is
\* the last callback and the controller enters Result; a failing call
\* delivers no complete.
C9_CompleteLastAndOnce ==
  /\ \A i, j \in DOMAIN progressLog :
       i < j => Rank(progressLog[i].status) <= Rank(progressLog[j].status)
  /\ \A i \in DOMAIN progressLog :
       progressLog[i].status = "complete"
         => (i = Len(progressLog) /\ progressLog[i].percent = 100 /\ tcall.pc = "none")
  /\ lastStep = "transcribe:returned"
       => /\ progressLog # << >>
          /\ progressLog[Len(progressLog)] = Progress("complete", 100)
          /\ "processing" \in Statuses(progressLog)
          /\ appState = "result"
          /\ transcriptionProgress = 100
  /\ appState = "result" => "complete" \in Statuses(progressLog)
  /\ lastStep \in TranscribeFailures => "complete" \notin Statuses(progressLog)

C9_Witness ==
  /\ lastStep = "transcribe:returned"
  /\ appState = "result"
  /\ progressLog[1].status = "loading"
  /\ Len(progressLog) > 3

\* C10: right after the download of a missing model has failed, transcribe()
\* has failed too: no processing and no complete callback was delivered, no
\* scratch WAV was written and the inference capability did not run.
C10_DownloadFailureSkipsInference ==
  lastStep = "download:failed"
    => /\ tcall.pc = "none"
       /\ Statuses(progressLog) \subseteq {"loading"}
       /\ ~wavWritten
       /\ inferenceRuns = 0
       /\ appState = "error"

C10_Witness ==
  /\ lastStep = "download:failed"
  /\ Len(progressLog) > 1
  /\ ~wavWritten
  /\ inferenceRuns = 0

\* ---- claims on the model store (StoreSpec)

\* the calls that are fetching or writing this model's local path
Downloading(model) ==
  {c \in Callers : dcall[c].name = model /\ dcall[c].pc \in {"dlFetch", "dlRead", "dlWrite"}}

\* the call of this caller ran downloadModel to its end without an error
Completed(c) == dcall[c].requested /\ dcall[c].pc \in {"returned", "processing"}

\* C11: of the overlapping download and transcribe calls for one missing
\* model, at most one is fetching or writing that model's local path at any
\* time.
C11_SingleFlight ==
  \A m \in ModelNames : ~IsModelDownloaded(m) => Cardinality(Downloading(m)) <= 1

\* C12: a step in which a download fails changes no file, and whenever
\* isModelDownloaded(name) is true the file at the model's local path holds
\* the complete bytes the URL serves.
C12_NoPartialFile ==
  /\ [](\A m \in ModelNames :
          IsModelDownloaded(m) => files[GetModelPath(m)] = [bytes |-> Asset(m)])
  /\ [][ (\E c \in Callers : dcall[c].pc # "failed" /\ dcall'[c].pc = "failed")
         => files' = files ]_vars

\* C13: when a downloadModel call runs to its end without an error the
\* model is present with the complete content, and a download that finishes
\* while the model is already present with that content leaves it in place.
C13_DownloadIdempotent ==
  [][ \A c \in Callers :
        (dcall[c].pc = "dlWrite" /\ dcall'[c].pc \in {"returned", "processing"})
          => /\ IsModelDownloaded(dcall[c].name)'
             /\ files'[GetModelPath(dcall[c].name)].bytes = Asset(dcall[c].name)
             /\ files[GetModelPath(dcall[c].name)] = [bytes |-> Asset(dcall[c].name)]
                  => files'[GetModelPath(dcall[c].name)]
                       = files[GetModelPath(dcall[c].name)] ]_vars

C13_Witness ==
  \E c, d \in Callers :
    /\ c # d
    /\ dcall[c].op = "downloadModel" /\ dcall[c].pc = "returned" /\ ~dcall[c].wasPresent
    /\ dcall[d].op = "downloadModel" /\ dcall[d].pc = "returned" /\ dcall[d].wasPresent
    /\ dcall[c].name = dcall[d].name
    /\ Len(dcall[d].chunks) > 1
    /\ IsModelDownloaded(dcall[c].name)

\* C14: a download that ran to its end has read every chunk and has written
\* the full file in its last step; without content-length it made no
\* onProgress call, with content-length one call per chunk, in chunk order.
C14_ProgressPerChunk ==
  /\ [](\A c \in Callers :
          Completed(c) =>
            LET d == dcall[c] IN
              /\ d.body = << >>
              /\ Combined(d.chunks) = Asset(d.name)
              /\ d.totalBytes = 0 => d.progress = << >>
              /\ d.totalBytes > 0 =>
                   /\ Len(d.progress) = Len(d.chunks)
                   /\ \A k \in DOMAIN d.progress :
                        /\ d.progress[k].downloadedBytes
                             = Len(Combined(SubSeq(d.chunks, 1, k)))
                        /\ d.progress[k].totalBytes = d.totalBytes
                        /\ d.progress[k].percent =
                             DownloadPercent(d.progress[k].downloadedBytes, d.totalBytes))
  /\ [][ \A c \in Callers :
          (~Completed(c) /\ Completed(c)')
            => files'[GetModelPath(dcall[c].name)] = [bytes |-> Combined(dcall[c].chunks)] ]_vars

C14_Witness ==
  \E c, d \in Callers :
    /\ Completed(c) /\ dcall[c].totalBytes = 0 /\ Len(dcall[c].chunks) > 1
    /\ Completed(d) /\ dcall[d].totalBytes > 0 /\ Len(dcall[d].progress) > 1

\* C15: a downloadModel() or transcribe() call with a model name that is not
\* a key of the registry makes no network request and writes no file.
C15_UnknownNameFailsFast ==
  \A c \in Callers :
    (dcall[c].op \in {"downloadModel", "transcribe"} /\ dcall[c].name \notin Registry)
      => /\ ~dcall[c].requested
         /\ dcall[c].pc \notin {"dlFetch", "dlRead", "dlWrite", "returned", "processing"}

\* C16: a transcribe() call that begins after the download script has
\* succeeded for its model finds the model present: it makes no request and
\* reports no loading progress.
C16_PredownloadAvoidsDownload ==
  \A c \in Callers :
    (dcall[c].op = "transcribe" /\ dcall[c].prefetched)
      => /\ ~dcall[c].requested
         /\ dcall[c].pc \in {"check", "processing"}
         /\ "loading" \notin Statuses(dcall[c].tlog)

\* ---- claims on the controller (Spec), continued

\* a Space/Enter key or a press of the record button that reaches
\* handleToggleRecording
ToggleTrigger ==
  \/ ButtonPress
  \/ KeyPress /\ lastStep' \in StartCalls \cup StopCalls \cup {"toggle:ignored"}

\* C17: once the controller is in Result or Error, only handleNewRecording
\* changes the controller state.
C17_TerminalPersists ==
  [][ (appState \in {"result", "error"})
      => (appState' = appState \/ lastStep' = "newRecording") ]_vars

\* C18: right after handleNewRecording the controller is Idle, the stored
\* transcription and error are cleared, the transcription progress percent
\* is 0 and the recorder's chunk buffer is empty.
C18_NewRecordingDiscards ==
  lastStep = "newRecording"
    => /\ appState = "idle"
       /\ transcription = NoValue
       /\ error = NoValue
       /\ transcriptionProgress = 0
       /\ audioChunks = << >>

\* C19: a toggleRecording trigger received while the controller is in
\* Transcribing or Error changes neither the controller state, the stored
\* transcription and error, nor the recorder, and calls neither start() nor
\* stop().
C19_ToggleIgnoredWhenBusy ==
  [][ (appState \in {"transcribing", "error"} /\ ToggleTrigger)
      => ( /\ UNCHANGED << appState, transcription, error, recVars >>
           /\ lastStep' = "toggle:ignored" ) ]_vars

\* ---- claims on the recorder under a fixed chunk interval (CaptureSpec)

\* C20: with chunk number k arriving k * d seconds after start(), a recording
\* ends at the first chunk that arrives at or after the maximum duration D:
\* it never lasts D + d or longer, and the duration stop() computes at that
\* chunk is at least D and less than D + d.
C20_AutoStopWithinOneInterval ==
  /\ [](isRecording => now - startTime < RecorderDuration + chunkInterval)
  /\ [][ (isRecording /\ ~isRecording')
         => ( /\ lastStep' = "chunk:autoStop"
              /\ stopResults' = stopResults + 1
              /\ Len(audioChunks') * chunkInterval >= RecorderDuration
              /\ Len(audioChunks) * chunkInterval < RecorderDuration
              /\ StopResult.duration >= RecorderDuration
              /\ StopResult.duration < RecorderDuration + chunkInterval ) ]_vars

C20_Witness ==
  /\ lastStep = "chunk:autoStop"
  /\ ~isRecording
  /\ now - startTime > RecorderDuration
  /\ startTime > 0
  /\ Len(audioChunks) > 1

\* ---- claims on the controller (Spec): the duration cap without chunks

\* C21: no firing of a timer ends a recording for which no chunk has
\* arrived: without chunks the session never leaves Recording on its own.
C21_NoWatchdog ==
  [][ ~( /\ TimerTick
         /\ isRecording
         /\ audioChunks = << >>
         /\ ~isRecording' ) ]_vars

\* C21 (amended): the recorder has no timer of its own, the controller has:
\* a recording for which no chunk has arrived ends only by a stream error or
\* by a stop() of the controller that returns and starts the transcription,
\* called by a toggle or by the 100 ms timer, and by the timer only once
\* the maximum duration has elapsed.
C21_ChunklessEndsByStopOrError ==
  [][ (isRecording /\ audioChunks = << >> /\ audioChunks' = << >> /\ ~isRecording')
      => ( \/ lastStep' = "stream:error"
           \/ /\ lastStep' = "stop:returned"
              /\ stopResults' = stopResults + 1
              /\ appState' = "transcribing"
              /\ tcall'.audioBuffer = << >>
              /\ \/ ToggleTrigger
                 \/ TimerTick /\ now - startTime >= RecorderDuration ) ]_vars

\* the timer ended a recording without chunks: no key or button reaches the
\* toggle while the model selection is shown
C21_Witness ==
  /\ lastStep = "stop:returned"
  /\ rViewState = "model-select"
  /\ audioChunks = << >>
  /\ now - startTime >= RecorderDuration
  /\ appState = "transcribing"
  /\ ~isRecording

\* ---- claims on the controller whose awaited steps settle (LiveSpec)

\* C22: once the controller is in Transcribing it eventually is in Result or
\* in Error, and the transcribe() call ends in Result when it returns and in
\* Error when it fails.
C22_TranscribingTerminates ==
  /\ (appState = "transcribing") ~> (appState \in {"result", "error"})
  /\ [][ (tcall.pc # "none" /\ tcall'.pc = "none")
         => \/ lastStep' = "transcribe:returned" /\ appState' = "result"
            \/ lastStep' \in TranscribeFailures /\ appState' = "error" ]_vars

\* a transcription that failed after its download had succeeded
C22_Witness ==
  /\ lastStep = "transcribe:failed"
  /\ appState = "error"
  /\ modelFile = "present"
  /\ wavWritten
  /\ Len(progressLog) > 2

\* ---- claims on the pure functions (FnSpec)

HeaderFields(h) ==
  [totalSize |-> ReadUInt32LE(h, 4), fmtSize |-> ReadUInt32LE(h, 16),
   formatTag |-> ReadUInt16LE(h, 20), numChannels |-> ReadUInt16LE(h, 22),
   sampleRate |-> ReadUInt32LE(h, 24), byteRate |-> ReadUInt32LE(h, 28),
   blockAlign |-> ReadUInt16LE(h, 32), bitsPerSample |-> ReadUInt16LE(h, 34),
   dataLength |-> ReadUInt32LE(h, 40)]

\* the fields the header of (sampleRate, numChannels, bitsPerSample,
\* dataLength) is to hold
ExpectedFields(a) ==
  [totalSize |-> Plus(a.dataLength, 36), fmtSize |-> Num(0, 16),
   formatTag |-> 1, numChannels |-> a.numChannels,
   sampleRate |-> a.sampleRate,
   byteRate |-> Times(a.sampleRate, (a.numChannels * a.bitsPerSample) \div 8),
   blockAlign |-> (a.numChannels * a.bitsPerSample) \div 8,
   bitsPerSample |-> a.bitsPerSample,
   dataLength |-> a.dataLength]

\* C24: for every input the header createWavHeader returns is 44 bytes long
\* and holds total size 36 + dataLength, format tag 1, blockAlign = channels *
\* bitsPerSample / 8, byteRate = sampleRate * blockAlign and the data length;
\* the file saveWav writes is 44 + dataLength bytes long.
C24_HeaderFields ==
  /\ (calc.fn = "createWavHeader" /\ calc.done /\ HasReturned(calc.out))
       => /\ Len(calc.out.value) = 44
          /\ HeaderFields(calc.out.value) = ExpectedFields(calc.arg)
  /\ (calc.fn = "saveWav" /\ calc.done /\ HasReturned(calc.out))
       => Len(calc.out.value) = 44 + Len(calc.arg.buffer)

\* the 32-bit fields can hold 36 + dataLength and sampleRate * blockAlign
Representable(a) ==
  /\ FitsUInt32(Plus(a.dataLength, 36))
  /\ FitsUInt32(Times(a.sampleRate, (a.numChannels * a.bitsPerSample) \div 8))

\* C24 (amended): when 36 + dataLength and sampleRate * blockAlign are below
\* 2^32, createWavHeader returns a 44-byte header with exactly those fields;
\* otherwise it throws or returns a header, 44 bytes long, whose other
\* fields are right and whose overflowing field is not; a file saveWav
\* writes is its header followed by the buffer, 44 + dataLength bytes.
C24_HeaderFieldsWhenRepresentable ==
  /\ (calc.fn = "createWavHeader" /\ calc.done)
       => IF Representable(calc.arg)
            THEN /\ HasReturned(calc.out)
                 /\ Len(calc.out.value) = 44
                 /\ HeaderFields(calc.out.value) = ExpectedFields(calc.arg)
            ELSE \/ HasThrown(calc.out)
                 \/ /\ Len(calc.out.value) = 44
                    /\ HeaderFields(calc.out.value) # ExpectedFields(calc.arg)
                    /\ \A f \in {"fmtSize", "formatTag", "numChannels", "sampleRate",
                                 "blockAlign", "bitsPerSample", "dataLength"} :
                         HeaderFields(calc.out.value)[f] = ExpectedFields(calc.arg)[f]
  /\ (calc.fn = "saveWav" /\ calc.done /\ HasReturned(calc.out))
       => /\ Len(calc.out.value) = 44 + Len(calc.arg.buffer)
          /\ SubSeq(calc.out.value, 45, Len(calc.out.value)) = calc.arg.buffer
          /\ HeaderFields(SubSeq(calc.out.value, 1, 44)).numChannels = 1
          /\ HeaderFields(SubSeq(calc.out.value, 1, 44)).bitsPerSample = 16
          /\ HeaderFields(SubSeq(calc.out.value, 1, 44)).dataLength
               = Num(0, Len(calc.arg.buffer))

\* a stereo 16-bit header at 44100 Hz: blockAlign 4, byteRate 176400
C24_Witness ==
  /\ calc.fn = "createWavHeader"
  /\ calc.done
  /\ HasReturned(calc.out)
  /\ calc.arg.numChannels = 2 /\ calc.arg.bitsPerSample = 16
  /\ calc.arg.sampleRate = Num(0, 44100)
  /\ calc.arg.dataLength = Num(29, 19456)
  /\ HeaderFields(calc.out.value).byteRate = Num(2, 45328)
  /\ HeaderFields(calc.out.value).totalSize = Num(29, 19492)

\* C25: loadWav fails, and returns no RecordingResult, whenever the file is
\* shorter than 44 bytes or one of the markers RIFF, WAVE, fmt and data is
\* not at its offset (0, 8, 12, 36).
C25_DecodeRejectsMalformed ==
  (calc.fn = "loadWav" /\ calc.done /\ (Len(calc.arg) < 44 \/ ~HasMarkers(calc.arg)))
    => HasThrown(calc.out)

\* the bytes getAmplitude has from the offset on are whole 16-bit samples
WholeSamples(buffer, offset) == Len(buffer) - offset <= 0 \/ (Len(buffer) - offset) % 2 = 0

\* C26: on a buffer of 16-bit samples calculateAmplitude and getAmplitude
\* return a value between 0 and 1, and 0 when every byte is 0.
C26_AmplitudeInUnitInterval ==
  /\ (calc.fn = "calculateAmplitude" /\ calc.done)
       => /\ HasReturned(calc.out)
          /\ calc.out.value.den > 0
          /\ 0 <= calc.out.value.num /\ calc.out.value.num <= calc.out.value.den
          /\ AllZero(calc.arg) => calc.out.value.num = 0
  /\ ( /\ calc.fn = "getAmplitude" /\ calc.done
       /\ WholeSamples(calc.arg.audioBuffer, calc.arg.offset) )
       => /\ HasReturned(calc.out)
          /\ calc.out.value.den > 0
          /\ 0 <= calc.out.value.num /\ calc.out.value.num <= calc.out.value.den
          /\ AllZero(calc.arg.audioBuffer) => calc.out.value.num = 0

\* full scale: every sample is -32768 and the amplitude is exactly 1
C26_Witness ==
  /\ calc.fn = "getAmplitude"
  /\ calc.done
  /\ Len(calc.arg.audioBuffer) = 2050
  /\ calc.arg.offset = 2
  /\ ReadInt16LE(calc.arg.audioBuffer, 2) = 0 - 32768
  /\ HasReturned(calc.out)
  /\ calc.out.value.num = calc.out.value.den

\* C27: calculateAmplitude and getAmplitude return a value for every buffer
\* length and offset, and return 0 when the buffer holds less than one
\* complete 16-bit sample from the offset on.
C27_AmplitudeTotal ==
  /\ (calc.fn = "calculateAmplitude" /\ calc.done)
       => /\ HasReturned(calc.out)
          /\ Len(calc.arg) < 2 => calc.out.value.num = 0
  /\ (calc.fn = "getAmplitude" /\ calc.done)
       => /\ HasReturned(calc.out)
          /\ Len(calc.arg.audioBuffer) - calc.arg.offset < 2 => calc.out.value.num = 0

\* C28: for a text that is not empty calculateConfidence returns a value
\* from 0.5 to 0.98, and 0.6 when the text has fewer than 10 characters.
C28_ConfidenceBounds ==
  (calc.fn = "calculateConfidence" /\ calc.done /\ Len(calc.arg) > 0)
    => /\ calc.out.value.den > 0
       /\ 50 * calc.out.value.den <= 100 * calc.out.value.num
       /\ 100 * calc.out.value.num <= 98 * calc.out.value.den
       /\ Len(calc.arg) < 10 => 10 * calc.out.value.num = 6 * calc.out.value.den

\* a text of 10 characters or more whose words repeat once lower-cased: the
\* value lies strictly inside the interval
C28_Witness ==
  /\ calc.fn = "calculateConfidence"
  /\ calc.done
  /\ Len(calc.arg) >= 10
  /\ \E i \in DOMAIN calc.arg : calc.arg[i] = "A"
  /\ Cardinality({ Split(ToLowerCase(calc.arg))[i] :
                     i \in DOMAIN Split(ToLowerCase(calc.arg)) }) = 1
  /\ 50 * calc.out.value.den < 100 * calc.out.value.num
  /\ 100 * calc.out.value.num < 98 * calc.out.value.den

\* the names that are keys of WHISPER_MODELS
WhisperModelNames == { WhisperModelKeys[i] : i \in DOMAIN WhisperModelKeys }

\* C29: isTranscriptionAvailable() returns true exactly when the file of at
\* least one registered model exists, whichever files exist.
C29_AvailableIffSomeModelPresent ==
  (calc.fn = "isTranscriptionAvailable" /\ calc.done)
    => ( calc.out.value
           <=> \E m \in WhisperModelNames : calc.arg[GetModelPath(m)] # NoValue )

\* the only registered model present is not one of tiny, base and small
C29_Witness ==
  /\ calc.fn = "isTranscriptionAvailable"
  /\ calc.done
  /\ calc.out.value = TRUE
  /\ \A m \in WhisperModelNames :
       calc.arg[GetModelPath(m)] # NoValue <=> m = "medium.en"
  /\ calc.arg[GetModelPath("large-v2")] # NoValue

\* ---- claims on the controller (Spec): the model selection

\* C30: whenever the model selection is the view on screen, the controller
\* is Idle.
C30_ModelSelectOnlyIdle ==
  (viewState = "model-select" /\ rViewState = "model-select" /\ rAppState = appState)
    => appState = "idle"

\* ---- claims on the model store (StoreSpec), continued

\* C38: when deleteModel(name) returns, isModelDownloaded(name) is false, and
\* a transcribe() call that checks for that model afterwards downloads it.
C38_DeleteRemovesModel ==
  [][ \A c \in Callers :
        (dcall[c].op = "deleteModel" /\ dcall[c].pc = "delWrite"
           /\ dcall'[c].pc = "returned")
          => ~IsModelDownloaded(dcall[c].name)' ]_vars

\* the controller with its timers running: the awaited steps of transcribe()
\* settle, the recording effect's interval keeps firing while it is alive,
\* React commits pending state, and the clock advances; the user and the
\* capture source are free to do nothing
WatchSpec ==
  Spec /\ WF_vars(TranscribeStep) /\ WF_vars(TimerTick) /\ WF_vars(Render)
       /\ WF_vars(Advance)

\* ---- claims on the recorder and the controller (Spec, WatchSpec), continued
\* C31: after the capture stream's error event during a recording the
\* controller does not remain in Recording with a recorder that has stopped:
\* it reaches Error, or at least leaves that combination.
C31_StreamErrorReachesError ==
  (lastStep = "stream:error" /\ appState = "recording")
    ~> (appState = "error" \/ ~(appState = "recording" /\ ~isRecording))

\* C34: the controller is in Recording only while the recorder is recording,
\* and the recorder is not recording while the controller is in Idle,
\* Transcribing, Result or Error.
C34_ControllerRecorderAgree ==
  /\ appState = "recording" => isRecording
  /\ appState \in {"idle", "transcribing", "result", "error"} => ~isRecording

\* C35: while the recorder is not recording no chunk is appended to the chunk
\* sequence (the handlers invoke the amplitude callback right after the
\* append): the sequence stays as it is, or start() empties it.
C35_NoChunkWhileStopped ==
  [][ (~isRecording) => (audioChunks' = audioChunks \/ audioChunks' = << >>) ]_vars

\* C37: elapsedTime is 0 whenever the recorder is not recording; it is 0 at
\* the moment a start succeeds, and while the recorder stays recording it
\* grows exactly as the clock does, so it is the time since that start.
C37_ElapsedTime ==
  /\ [](~isRecording => RecorderElapsedTime = 0)
  /\ [][ (~isRecording /\ isRecording') => RecorderElapsedTime' = 0 ]_vars
  /\ [][ (isRecording /\ isRecording')
           => RecorderElapsedTime' - RecorderElapsedTime = now' - now ]_vars

\* a second recording, begun after time 0, has been running for a while
C37_Witness ==
  /\ isRecording
  /\ starts = 2
  /\ startTime > 0
  /\ RecorderElapsedTime > 0

\* C36: Result implies a stored transcription, Error implies a stored error
\* with a message, and Idle and Recording imply that neither a transcription
\* nor an error is stored.
C36_StateDataConsistent ==
  /\ appState = "result" => transcription # NoValue
  /\ appState = "error" => (error # NoValue /\ error.message # "")
  /\ appState \in {"idle", "recording"} => (transcription = NoValue /\ error = NoValue)

\* a new recording has been asked for after a recording was made: the
\* controller is back in Idle
C36_Witness ==
  /\ appState = "idle"
  /\ lastStep = "newRecording"
  /\ starts > 0

\* ---- claims on the recorder under any client (RecorderSpec)
\* C32: at most one chunk producer is running at any time: when start()
\* returns, no mock interval and no stream of an earlier recording is alive.
C32_OneProducer ==
  Cardinality(producers) + (IF streamOpen THEN 1 ELSE 0) <= 1

\* C33: start() empties the chunk sequence; until the next start() the
\* sequence only grows, by one chunk at its end per delivery; and when stop()
\* returns, every chunk of its result comes from the capture source of the
\* matching start().
C33_ResultIsThisRecording ==
  /\ [][ starts' # starts => audioChunks' = << >> ]_vars
  /\ [][ starts' = starts
           => \/ audioChunks' = audioChunks
              \/ /\ Len(audioChunks') = Len(audioChunks) + 1
                 /\ SubSeq(audioChunks', 1, Len(audioChunks)) = audioChunks ]_vars
  /\ [][ lastStep' = "stop:returned"
           => \A k \in DOMAIN StopResult.audioBuffer : origins[k] = starts ]_vars

====
